---- MODULE Spec2Model ----
(***************************************************************************)
(* MENACE: a matchbox (src/matchbox.py) holds the beads of the legal moves *)
(* of one game state; a Menace agent (src/menace.py) owns one matchbox per *)
(* state, draws moves from them, and after a game rewards or punishes the  *)
(* moves of one player and saves the table as JSON.                        *)
(*                                                                         *)
(* Python values are modelled as follows.                                  *)
(*   - a move ((fr, fc), (tr, tc)) is the tuple <<<<fr, fc>>, <<tr, tc>>>>.*)
(*   - a state identifier is <<"str", n>> (the string whose text is the    *)
(*     numeral n) or <<"int", n>> (the integer n): str(n) of the integer   *)
(*     is the string of the same numeral, and "1" # 1 as dictionary keys.  *)
(*   - a dict is the sequence of its <<key, value>> items in insertion     *)
(*     order, keys unique.                                                 *)
(*   - a raised exception is a name in an err field, "none" when the call  *)
(*     returned.                                                           *)
(*   - the JSON text of a model file is the sequence of its                *)
(*     <<key, moves_list>> members as written (json.dump writes one member *)
(*     per dict item and does not merge keys that coerce to the same       *)
(*     string); a moves_list is a sequence of [move, beads] records.       *)
(***************************************************************************)
EXTENDS Integers, Sequences, FiniteSets, TLC

VARIABLES
    pc,          \* "new": no agent object yet; "ready": __init__ returned
    matchboxes,  \* Menace.matchboxes: dict state -> Matchbox
    file,        \* the file at Menace.model_path: [exists, text]
    last,        \* the last Menace call: its arguments and its outcome
    nTrain,      \* number of game_report calls made so far
    box,         \* a Matchbox used on its own
    boxLast      \* the last Matchbox call on box: its argument and outcome

vars == <<pc, matchboxes, file, last, nTrain, box, boxLast>>

----------------------------------------------------------------------------
(* Program constants. *)

min_beads == 1
max_beads == 15
initial_beads == 3

(* Bounds of the model. *)

MaxHist == 3     \* longest game history passed to game_report
MaxTrain == 1    \* game_report calls explored

----------------------------------------------------------------------------
(* Python helpers. *)

Min(a, b) == IF a < b THEN a ELSE b
Max(a, b) == IF a > b THEN a ELSE b

StrId(n) == <<"str", n>>
IntId(n) == <<"int", n>>

\* str(state): a string is itself, an integer becomes its numeral.
Str(state) == <<"str", state[2]>>

\* dict operations on a sequence of <<key, value>> items.
DictKeys(d) == {d[i][1] : i \in DOMAIN d}
DictHas(d, k) == k \in DictKeys(d)
DictIndex(d, k) == CHOOSE i \in DOMAIN d : d[i][1] = k
DictGet(d, k) == d[DictIndex(d, k)][2]
DictSet(d, k, v) ==
    IF DictHas(d, k) THEN [d EXCEPT ![DictIndex(d, k)] = <<k, v>>]
    ELSE Append(d, <<k, v>>)

\* Mutant of Slice: game_history[player_idx:], the stride dropped.
SliceEveryTurn(game_history, player_idx) ==
    [j \in 1..Max(0, Len(game_history) - player_idx) |->
        game_history[player_idx + j]]

\* game_history[player_idx::2] for player_idx >= 0.
Slice(game_history, player_idx) ==
    LET picked == {i \in DOMAIN game_history :
                      i - 1 >= player_idx /\ (i - 1 - player_idx) % 2 = 0}
        n == Cardinality(picked)
    IN  [j \in 1..n |-> game_history[player_idx + 1 + 2 * (j - 1)]]

----------------------------------------------------------------------------
(* Matchbox (src/matchbox.py): a record [state, moves_and_beads], the      *)
(* latter a dict move -> beads.                                            *)

Matchbox(state, moves_and_beads) ==
    [state |-> state, moves_and_beads |-> moves_and_beads]

\* Mutant of get_beads: self.moves_and_beads.get(move, 0).
GetBeadsDefaultZero(b, move) ==
    IF DictHas(b.moves_and_beads, move) THEN DictGet(b.moves_and_beads, move)
    ELSE 0

\* self.moves_and_beads.get(move, -1)
get_beads(b, move) ==
    IF DictHas(b.moves_and_beads, move) THEN DictGet(b.moves_and_beads, move)
    ELSE -1

\* Mutant of _set_beads: the clamp to max_beads dropped.
SetBeadsNoCeiling(b, move, change) ==
    IF ~DictHas(b.moves_and_beads, move)
    THEN [err |-> "KeyError", box |-> b]
    ELSE [err |-> "none",
          box |-> [b EXCEPT !.moves_and_beads =
                      DictSet(@, move,
                              Max(min_beads, DictGet(@, move) + change))]]

\* Mutant of _set_beads: the floor of the clamp is 0, not min_beads.
SetBeadsFloorZero(b, move, change) ==
    IF ~DictHas(b.moves_and_beads, move)
    THEN [err |-> "KeyError", box |-> b]
    ELSE [err |-> "none",
          box |-> [b EXCEPT !.moves_and_beads =
                      DictSet(@, move,
                              Min(Max(0, DictGet(@, move) + change),
                                  max_beads))]]

\* Mutant of _set_beads: the old count read with a default,
\* self.moves_and_beads.get(move, 0), so a missing move is stored.
SetBeadsInsertMissing(b, move, change) ==
    [err |-> "none",
     box |-> [b EXCEPT !.moves_and_beads =
                 DictSet(@, move,
                         Min(Max(min_beads,
                                 (IF DictHas(@, move) THEN DictGet(@, move)
                                  ELSE 0) + change),
                             max_beads))]]

\* Mutant of _set_beads: the floor applied to the old count, before the
\* change is added: min(max(min_beads, old) + change, max_beads).
SetBeadsFloorBeforeAdd(b, move, change) ==
    IF ~DictHas(b.moves_and_beads, move)
    THEN [err |-> "KeyError", box |-> b]
    ELSE [err |-> "none",
          box |-> [b EXCEPT !.moves_and_beads =
                      DictSet(@, move,
                              Min(Max(min_beads, DictGet(@, move)) + change,
                                  max_beads))]]

\* self.moves_and_beads[move] = min(max(min_beads, old + change), max_beads);
\* reading self.moves_and_beads[move] of a missing move raises KeyError
\* before anything is stored.
_set_beads(b, move, change) ==
    IF ~DictHas(b.moves_and_beads, move)
    THEN [err |-> "KeyError", box |-> b]
    ELSE [err |-> "none",
          box |-> [b EXCEPT !.moves_and_beads =
                      DictSet(@, move,
                              Min(Max(min_beads, DictGet(@, move) + change),
                                  max_beads))]]

reward(b, move) == _set_beads(b, move, 1)

punish(b, move) == _set_beads(b, move, -1)

RECURSIVE SumBeads(_)
SumBeads(d) == IF d = <<>> THEN 0 ELSE d[1][2] + SumBeads(Tail(d))

\* random.choices(moves, weights=weights, k=1)[0]: the set of outcomes.
\* An empty population raises IndexError, a total weight <= 0 ValueError;
\* otherwise any move of positive weight can be returned.
draw_bead(b) ==
    IF b.moves_and_beads = <<>>
    THEN {[err |-> "IndexError", ret |-> <<>>]}
    ELSE IF SumBeads(b.moves_and_beads) <= 0
    THEN {[err |-> "ValueError", ret |-> <<>>]}
    ELSE {[err |-> "none", ret |-> b.moves_and_beads[i][1]] :
             i \in {j \in DOMAIN b.moves_and_beads :
                       b.moves_and_beads[j][2] > 0}}

\* {'state': self.state, 'moves': self.moves_and_beads}
to_dict(b) == [state |-> b.state, moves |-> b.moves_and_beads]

\* cls(d['state'], d['moves_and_beads']): a missing key raises KeyError.
from_dict(d) ==
    IF "state" \notin DOMAIN d \/ "moves_and_beads" \notin DOMAIN d
    THEN [err |-> "KeyError", box |-> Matchbox(<<"str", 0>>, <<>>)]
    ELSE [err |-> "none", box |-> Matchbox(d.state, d.moves_and_beads)]

----------------------------------------------------------------------------
(* Menace (src/menace.py): the model file.                                 *)

NoFile == [exists |-> FALSE, text |-> <<>>]

\* "move": [[from_row, from_col], [to_row, to_col]] after
\* (from_row, from_col), (to_row, to_col) = move
EncodeMove(move) ==
    LET from_row == move[1][1]
        from_col == move[1][2]
        to_row == move[2][1]
        to_col == move[2][2]
    IN  <<<<from_row, from_col>>, <<to_row, to_col>>>>

\* move_tuple = ((from_row, from_col), (to_row, to_col)) after
\* from_row, from_col = item["move"][0]; to_row, to_col = item["move"][1]
DecodeMove(item_move) ==
    LET from_row == item_move[1][1]
        from_col == item_move[1][2]
        to_row == item_move[2][1]
        to_col == item_move[2][2]
    IN  <<<<from_row, from_col>>, <<to_row, to_col>>>>

\* The moves_list save_model builds for one matchbox.
MovesList(moves_and_beads) ==
    [j \in DOMAIN moves_and_beads |->
        [move |-> EncodeMove(moves_and_beads[j][1]),
         beads |-> moves_and_beads[j][2]]]

\* save_model: model_json[state] = moves_list for every item of
\* self.matchboxes, then json.dump, which writes the key of each item as
\* a string (an int key as its numeral) and one member per item.
save_model(mb) ==
    [exists |-> TRUE,
     text |-> [i \in DOMAIN mb |->
                  <<Str(mb[i][1]), MovesList(mb[i][2].moves_and_beads)>>]]

\* json.load of an object: a dict of its members, a repeated key keeping
\* its first position and its last value.
RECURSIVE JsonLoad(_)
JsonLoad(text) ==
    IF text = <<>> THEN <<>>
    ELSE LET n == Len(text)
         IN  DictSet(JsonLoad(SubSeq(text, 1, n - 1)), text[n][1], text[n][2])

\* The moves_and_beads import_model builds from one moves_list.
RECURSIVE MovesAndBeads(_)
MovesAndBeads(moves_list) ==
    IF moves_list = <<>> THEN <<>>
    ELSE LET n == Len(moves_list)
         IN  DictSet(MovesAndBeads(SubSeq(moves_list, 1, n - 1)),
                     DecodeMove(moves_list[n].move), moves_list[n].beads)

\* The loop of import_model over model_json.items(), into self.matchboxes.
RECURSIVE ImportItems(_, _)
ImportItems(mb, model_json) ==
    IF model_json = <<>> THEN mb
    ELSE LET state_str == model_json[1][1]
             moves_list == model_json[1][2]
         IN  ImportItems(DictSet(mb, state_str,
                                 Matchbox(state_str, MovesAndBeads(moves_list))),
                         Tail(model_json))

import_model(mb, f) == ImportItems(mb, JsonLoad(f.text))

\* The moves_and_beads create_model builds from one list of moves.
RECURSIVE InitialBeads(_, _)
InitialBeads(moves, beads) ==
    IF moves = <<>> THEN <<>>
    ELSE LET n == Len(moves)
         IN  DictSet(InitialBeads(SubSeq(moves, 1, n - 1), beads),
                     moves[n], beads)

\* The loop of create_model over states_and_moves.items(): the matchbox is
\* built with str(state) and stored under state.
RECURSIVE CreateItems(_, _, _)
CreateItems(mb, states_and_moves, beads) ==
    IF states_and_moves = <<>> THEN mb
    ELSE LET state == states_and_moves[1][1]
             moves == states_and_moves[1][2]
         IN  CreateItems(DictSet(mb, state,
                                 Matchbox(Str(state), InitialBeads(moves, beads))),
                         Tail(states_and_moves), beads)

\* create_model: the table, and the file save_model writes from it.
create_model(mb, states_and_moves, beads) ==
    LET created == CreateItems(mb, states_and_moves, beads)
    IN  [matchboxes |-> created, file |-> save_model(created)]

\* Mutant of MenaceInit: a given states_and_moves is created even when the
\* file exists.
MenaceInitCreateFirst(f, given, states_and_moves) ==
    IF given
    THEN LET c == create_model(<<>>, states_and_moves, initial_beads)
         IN  [err |-> "none",
              matchboxes |-> import_model(c.matchboxes, c.file),
              file |-> c.file]
    ELSE IF f.exists
    THEN [err |-> "none", matchboxes |-> import_model(<<>>, f), file |-> f]
    ELSE [err |-> "FileNotFoundError", matchboxes |-> <<>>, file |-> f]

\* __init__: an existing file is imported; else a given states_and_moves
\* is created, saved and imported; else FileNotFoundError.
MenaceInit(f, given, states_and_moves) ==
    IF f.exists
    THEN [err |-> "none", matchboxes |-> import_model(<<>>, f), file |-> f]
    ELSE IF given
    THEN LET c == create_model(<<>>, states_and_moves, initial_beads)
         IN  [err |-> "none",
              matchboxes |-> import_model(c.matchboxes, c.file),
              file |-> c.file]
    ELSE [err |-> "FileNotFoundError", matchboxes |-> <<>>, file |-> f]

\* Mutant of get_move: the matchbox is looked up under str(board_state).
GetMoveStrKey(mb, board_state) ==
    IF ~DictHas(mb, Str(board_state))
    THEN {[err |-> "Exception", ret |-> <<>>]}
    ELSE draw_bead(DictGet(mb, Str(board_state)))

\* get_move: the set of outcomes; an unknown board_state raises Exception.
get_move(mb, board_state) ==
    IF ~DictHas(mb, board_state)
    THEN {[err |-> "Exception", ret |-> <<>>]}
    ELSE draw_bead(DictGet(mb, board_state))

\* Mutant of Adjust: the two branches of _train_model exchanged.
AdjustSwapped(mb, state, move, won) ==
    IF ~DictHas(mb, state) THEN [err |-> "KeyError", matchboxes |-> mb]
    ELSE LET b == DictGet(mb, state)
             r == IF won THEN punish(b, move) ELSE reward(b, move)
         IN  [err |-> r.err, matchboxes |-> DictSet(mb, state, r.box)]

\* One iteration of a loop of _train_model on the pair (state, move):
\* self.matchboxes[state] raises KeyError for a missing state, and
\* reward/punish raise it for a missing move.
Adjust(mb, state, move, won) ==
    IF ~DictHas(mb, state) THEN [err |-> "KeyError", matchboxes |-> mb]
    ELSE LET b == DictGet(mb, state)
             r == IF won THEN reward(b, move) ELSE punish(b, move)
         IN  [err |-> r.err, matchboxes |-> DictSet(mb, state, r.box)]

\* The loop over game_history[player_idx::2]; it stops at the first
\* exception, keeping what was adjusted before.
RECURSIVE AdjustAll(_, _, _)
AdjustAll(mb, pairs, won) ==
    IF pairs = <<>> THEN [err |-> "none", matchboxes |-> mb]
    ELSE LET r == Adjust(mb, pairs[1][1], pairs[1][2], won)
         IN  IF r.err # "none" THEN r
             ELSE AdjustAll(r.matchboxes, Tail(pairs), won)

\* Mutant of _train_model: a game without winner (winner_position 0)
\* adjusts nothing and is only saved.
TrainModelDrawNeutral(mb, f, game_history, player_position, winner_position) ==
    LET player_idx == player_position - 1
        r == IF winner_position = 0 THEN [err |-> "none", matchboxes |-> mb]
             ELSE AdjustAll(mb, Slice(game_history, player_idx),
                            player_position = winner_position)
    IN  [err |-> r.err,
         matchboxes |-> r.matchboxes,
         file |-> IF r.err = "none" THEN save_model(r.matchboxes) ELSE f]

\* Mutant of _train_model: an exception undoes the adjustments made
\* before it.
TrainModelUndoOnError(mb, f, game_history, player_position, winner_position) ==
    LET player_idx == player_position - 1
        r == AdjustAll(mb, Slice(game_history, player_idx),
                       player_position = winner_position)
    IN  [err |-> r.err,
         matchboxes |-> IF r.err = "none" THEN r.matchboxes ELSE mb,
         file |-> IF r.err = "none" THEN save_model(r.matchboxes) ELSE f]

\* _train_model: player_idx = player_position - 1, reward when
\* player_position == winner_position and punish otherwise, then
\* save_model; an exception leaves the loop and skips the save.
_train_model(mb, f, game_history, player_position, winner_position) ==
    LET player_idx == player_position - 1
        r == AdjustAll(mb, Slice(game_history, player_idx),
                       player_position = winner_position)
    IN  [err |-> r.err,
         matchboxes |-> r.matchboxes,
         file |-> IF r.err = "none" THEN save_model(r.matchboxes) ELSE f]

----------------------------------------------------------------------------
(* Inputs. *)

M1 == <<<<0, 0>>, <<0, 1>>>>
M2 == <<<<0, 1>>, <<1, 0>>>>
M3 == <<<<1, 1>>, <<0, 0>>>>
Moves == {M1, M2, M3}

S1 == StrId(1)
S2 == StrId(2)
I1 == IntId(1)
States == {S1, S2, I1}

\* states_and_moves arguments: a dict state -> list of legal moves.
\* The empty table; a state of two moves and one of none; a state of one
\* move; a state whose identifier is an integer.
Tables ==
    { <<>>,
      << <<S1, <<M1, M2>>>>, <<S2, <<>>>> >>,
      << <<S1, <<M1>>>> >>,
      << <<I1, <<M2, M1>>>> >> }

\* (state, move) pairs of game histories.
HistPairs == {<<S1, M1>>, <<S1, M2>>, <<I1, M1>>}
Histories == UNION {[1..n -> HistPairs] : n \in 0..MaxHist}

Positions == 1..2      \* player_position: the two turn slots
Winners == 0..2        \* winner_position: a player, or 0 for no winner

\* The model file an earlier session can have left: what save_model wrote
\* from a table whose beads training has moved to the floor, to the
\* ceiling and next to it.
SavedTable ==
    << <<S1, Matchbox(S1, << <<M1, min_beads>>, <<M2, max_beads>> >>)>>,
       <<S2, Matchbox(S2, << <<M1, max_beads - 1>> >>)>> >>
InitFiles == {NoFile, save_model(SavedTable)}

\* initial_beads arguments of a direct create_model call: the default, and
\* a count on either side of the bounds.
InitialBeadsArgs == {min_beads - 1, initial_beads, max_beads + 1}

\* Matchboxes on their own: every bead count within the bounds.
Beads == min_beads..max_beads
InitBoxes ==
    {Matchbox(S1, <<>>)}
    \cup {Matchbox(S1, << <<M1, a>> >>) : a \in Beads}
    \cup {Matchbox(S1, << <<M1, a>>, <<M2, b>> >>) : a \in Beads, b \in Beads}

----------------------------------------------------------------------------
(* The state machine of an agent: __init__, get_move, game_report, and the *)
(* end of the session that owns the agent object.  The program is          *)
(* single-threaded and synchronous: the driver makes a call when the one   *)
(* before it is over (Idle), and last holds a call's arguments and outcome *)
(* until the driver goes on (Return).                                      *)

NoCall ==
    [op |-> "none", state |-> <<"str", 0>>, game_history |-> <<>>,
     player_position |-> 0, winner_position |-> 0,
     given |-> FALSE, states_and_moves |-> <<>>, beads |-> 0,
     err |-> "none", ret |-> <<>>]

NoBoxCall ==
    [op |-> "none", move |-> <<>>, err |-> "none", beads |-> 0,
     ret |-> <<>>, out |-> Matchbox(<<"str", 0>>, <<>>)]

Init ==
    /\ pc = "new"
    /\ matchboxes = <<>>
    /\ file \in InitFiles
    /\ last = NoCall
    /\ nTrain = 0
    /\ box = Matchbox(<<"str", 0>>, <<>>)
    /\ boxLast = NoBoxCall

Idle == last.op = "none"

\* Menace(player_position=..., game_name=..., states_and_moves=...)
Construct(given, states_and_moves) ==
    /\ Idle
    /\ pc = "new"
    /\ LET r == MenaceInit(file, given, states_and_moves)
       IN  /\ pc' = IF r.err = "none" THEN "ready" ELSE "new"
           /\ matchboxes' = r.matchboxes
           /\ file' = r.file
           /\ last' = [NoCall EXCEPT !.op = "init", !.given = given,
                          !.states_and_moves = states_and_moves,
                          !.err = r.err]
    /\ UNCHANGED <<nTrain, box, boxLast>>

\* Mutant of GetMove: the bead drawn is taken out of the matchbox.
GetMoveTakesBead(board_state) ==
    /\ Idle
    /\ pc = "ready"
    /\ \E o \in get_move(matchboxes, board_state) :
          /\ last' = [NoCall EXCEPT !.op = "get_move", !.state = board_state,
                         !.err = o.err, !.ret = o.ret]
          /\ matchboxes' =
                IF o.err = "none"
                THEN DictSet(matchboxes, board_state,
                             punish(DictGet(matchboxes, board_state), o.ret).box)
                ELSE matchboxes
    /\ UNCHANGED <<pc, file, nTrain, box, boxLast>>

\* agent.get_move(board_state)
GetMove(board_state) ==
    /\ Idle
    /\ pc = "ready"
    /\ \E o \in get_move(matchboxes, board_state) :
          last' = [NoCall EXCEPT !.op = "get_move", !.state = board_state,
                      !.err = o.err, !.ret = o.ret]
    /\ UNCHANGED <<pc, matchboxes, file, nTrain, box, boxLast>>

\* agent.game_report(game_history, player_position, winner_position)
GameReport(game_history, player_position, winner_position) ==
    /\ Idle
    /\ pc = "ready"
    /\ nTrain < MaxTrain
    /\ LET r == _train_model(matchboxes, file, game_history,
                             player_position, winner_position)
       IN  /\ matchboxes' = r.matchboxes
           /\ file' = r.file
           /\ last' = [NoCall EXCEPT !.op = "game_report",
                          !.game_history = game_history,
                          !.player_position = player_position,
                          !.winner_position = winner_position,
                          !.err = r.err]
    /\ nTrain' = nTrain + 1
    /\ UNCHANGED <<pc, box, boxLast>>

\* The session ends: the agent object is gone, the model file stays.
EndSession ==
    /\ Idle
    /\ pc = "ready"
    /\ pc' = "new"
    /\ matchboxes' = <<>>
    /\ UNCHANGED <<file, last, nTrain, box, boxLast>>

\* The driver has the outcome of its call and goes on.
Return ==
    /\ ~Idle
    /\ last' = NoCall
    /\ UNCHANGED <<pc, matchboxes, file, nTrain, box, boxLast>>

Next ==
    \/ \E t \in Tables : Construct(TRUE, t)
    \/ Construct(FALSE, <<>>)
    \/ \E s \in States : GetMove(s)
    \/ \E h \in Histories, p \in Positions, w \in Winners : GameReport(h, p, w)
    \/ EndSession
    \/ Return

Spec == Init /\ [][Next]_vars

----------------------------------------------------------------------------
(* The agent with a driver that also calls create_model itself.            *)

\* agent.create_model(agent.player_position, agent.game_name,
\*                    states_and_moves, initial_beads): the path it sets
\* is the agent's own model_path.
CreateModel(states_and_moves, beads) ==
    /\ Idle
    /\ pc = "ready"
    /\ LET c == create_model(matchboxes, states_and_moves, beads)
       IN  /\ matchboxes' = c.matchboxes
           /\ file' = c.file
    /\ last' = [NoCall EXCEPT !.op = "create_model", !.given = TRUE,
                   !.states_and_moves = states_and_moves, !.beads = beads]
    /\ UNCHANGED <<pc, nTrain, box, boxLast>>

NextCreate ==
    \/ Next
    \/ \E t \in Tables, n \in InitialBeadsArgs : CreateModel(t, n)

SpecCreate == Init /\ [][NextCreate]_vars

----------------------------------------------------------------------------
(* The state machine of a Matchbox used on its own.                        *)

InitBox ==
    /\ pc = "new"
    /\ matchboxes = <<>>
    /\ file = NoFile
    /\ last = NoCall
    /\ nTrain = 0
    /\ box \in InitBoxes
    /\ boxLast = NoBoxCall

BoxReward(move) ==
    /\ LET r == reward(box, move)
       IN  /\ box' = r.box
           /\ boxLast' = [NoBoxCall EXCEPT !.op = "reward", !.move = move,
                             !.err = r.err]
    /\ UNCHANGED <<pc, matchboxes, file, last, nTrain>>

BoxPunish(move) ==
    /\ LET r == punish(box, move)
       IN  /\ box' = r.box
           /\ boxLast' = [NoBoxCall EXCEPT !.op = "punish", !.move = move,
                             !.err = r.err]
    /\ UNCHANGED <<pc, matchboxes, file, last, nTrain>>

BoxGetBeads(move) ==
    /\ boxLast' = [NoBoxCall EXCEPT !.op = "get_beads", !.move = move,
                      !.beads = get_beads(box, move)]
    /\ UNCHANGED <<pc, matchboxes, file, last, nTrain, box>>

BoxDrawBead ==
    /\ \E o \in draw_bead(box) :
          boxLast' = [NoBoxCall EXCEPT !.op = "draw_bead", !.err = o.err,
                         !.ret = o.ret]
    /\ UNCHANGED <<pc, matchboxes, file, last, nTrain, box>>

\* Matchbox.from_dict(box.to_dict())
BoxRoundTrip ==
    /\ LET r == from_dict(to_dict(box))
       IN  boxLast' = [NoBoxCall EXCEPT !.op = "round_trip", !.err = r.err,
                          !.out = r.box]
    /\ UNCHANGED <<pc, matchboxes, file, last, nTrain, box>>

NextBox ==
    \/ \E m \in Moves : BoxReward(m)
    \/ \E m \in Moves : BoxPunish(m)
    \/ \E m \in Moves : BoxGetBeads(m)
    \/ BoxDrawBead
    \/ BoxRoundTrip

SpecBox == InitBox /\ [][NextBox]_vars

----------------------------------------------------------------------------
(* What the properties below speak of.                                     *)

\* The beads of every move of a matchbox, as a mapping.
BeadsOf(b) ==
    [m \in DictKeys(b.moves_and_beads) |-> DictGet(b.moves_and_beads, m)]

\* The in-memory table: state identifier -> move -> beads.
TableOf(mb) == [k \in DictKeys(mb) |-> BeadsOf(DictGet(mb, k))]

\* The persisted model as a JSON reader sees it: state identifier -> move
\* -> beads, the last member of a repeated name standing for it.
FileKeys(f) == {f.text[i][1] : i \in DOMAIN f.text}
FileMember(f, k) ==
    LET i == CHOOSE i \in DOMAIN f.text :
                 /\ f.text[i][1] = k
                 /\ \A j \in DOMAIN f.text : f.text[j][1] = k => j <= i
    IN  f.text[i][2]
ListBeads(moves_list, m) ==
    LET i == CHOOSE i \in DOMAIN moves_list :
                 /\ moves_list[i].move = m
                 /\ \A j \in DOMAIN moves_list :
                       moves_list[j].move = m => j <= i
    IN  moves_list[i].beads
FileTable(f) ==
    [k \in FileKeys(f) |->
        LET moves_list == FileMember(f, k)
        IN  [m \in {moves_list[j].move : j \in DOMAIN moves_list} |->
                ListBeads(moves_list, m)]]

\* The 0-based indices of a history that belong to the acting player:
\* p - 1, p - 1 + 2, p - 1 + 4, ...
ActingIndices(h, p) ==
    {i \in 0..(Len(h) - 1) : i >= p - 1 /\ (i - (p - 1)) % 2 = 0}
ActingPairs(h, p) == {h[i + 1] : i \in ActingIndices(h, p)}

Weight(mb, state, move) == get_beads(DictGet(mb, state), move)

Trained == last.op = "game_report" /\ last.err = "none"

----------------------------------------------------------------------------
(* C1: a Matchbox whose beads all start in [1, 15] keeps every bead count  *)
(* in [1, 15] under any sequence of reward and punish calls on its moves.  *)

C1_BeadsWithinBounds ==
    \A i \in DOMAIN box.moves_and_beads :
        /\ min_beads <= box.moves_and_beads[i][2]
        /\ box.moves_and_beads[i][2] <= max_beads

\* A reward has just acted and its move is at the ceiling.
C1_Witness ==
    /\ boxLast.op = "reward"
    /\ boxLast.err = "none"
    /\ get_beads(box, boxLast.move) = max_beads

----------------------------------------------------------------------------
(* C5: Matchbox.from_dict(d.to_dict()) succeeds and yields a Matchbox with *)
(* the state and the move-to-beads mapping of d.                           *)

C5_DictRoundTrip ==
    boxLast.op = "round_trip" =>
        /\ boxLast.err = "none"
        /\ boxLast.out.state = box.state
        /\ BeadsOf(boxLast.out) = BeadsOf(box)

----------------------------------------------------------------------------
(* C2: a training call that returns, made for the winner, leaves the beads *)
(* of every pair of the acting player's subsequence strictly greater, or   *)
(* at 15 when they were 15; made for another outcome, strictly smaller, or *)
(* at 1 when they were 1.                                                  *)

C2_TrainDirection ==
    [][ (last'.op = "game_report" /\ last'.err = "none") =>
          \A i \in ActingIndices(last'.game_history, last'.player_position) :
             LET state == last'.game_history[i + 1][1]
                 move == last'.game_history[i + 1][2]
                 old == Weight(matchboxes, state, move)
                 new == Weight(matchboxes', state, move)
             IN  IF last'.player_position = last'.winner_position
                 THEN new > old \/ (old = max_beads /\ new = max_beads)
                 ELSE new < old \/ (old = min_beads /\ new = min_beads)
      ]_vars

\* A winning call has returned whose subsequence holds a pair now at the
\* ceiling and a pair just above the floor.
C2_Witness ==
    /\ Trained
    /\ last.player_position = last.winner_position
    /\ \E x, y \in ActingPairs(last.game_history, last.player_position) :
          /\ Weight(matchboxes, x[1], x[2]) = max_beads
          /\ Weight(matchboxes, y[1], y[2]) = min_beads + 1

----------------------------------------------------------------------------
(* C3: a training call changes the beads of no (state, move) pair of the   *)
(* table other than those at the history indices p - 1, p - 1 + 2, ...;    *)
(* the states of the table and the moves of each state stay as they were.  *)

C3_TrainFrame ==
    [][ last'.op = "game_report" =>
          /\ DictKeys(matchboxes') = DictKeys(matchboxes)
          /\ \A state \in DictKeys(matchboxes) :
                /\ DictKeys(DictGet(matchboxes', state).moves_and_beads)
                      = DictKeys(DictGet(matchboxes, state).moves_and_beads)
                /\ \A move \in DictKeys(DictGet(matchboxes, state).moves_and_beads) :
                      <<state, move>> \notin
                          ActingPairs(last'.game_history, last'.player_position)
                      => Weight(matchboxes', state, move)
                            = Weight(matchboxes, state, move)
      ]_vars

\* A call has returned whose history holds, at an opponent's index, a pair
\* of the table that the acting player did not play, after an own pair.
C3_Witness ==
    /\ Trained
    /\ Len(last.game_history) = MaxHist
    /\ ActingIndices(last.game_history, last.player_position) # {}
    /\ \E i \in 0..(Len(last.game_history) - 1) :
          /\ i \notin ActingIndices(last.game_history, last.player_position)
          /\ last.game_history[i + 1] \notin
                ActingPairs(last.game_history, last.player_position)
          /\ DictHas(matchboxes, last.game_history[i + 1][1])
          /\ Weight(matchboxes, last.game_history[i + 1][1],
                    last.game_history[i + 1][2]) = initial_beads

----------------------------------------------------------------------------
(* C4: the table saved with save_model and imported with import_model into *)
(* an empty table is the table that was saved: the same state identifiers, *)
(* and for each the same moves with the same beads.                        *)

C4_SaveImportIdentity ==
    pc = "ready" =>
        TableOf(import_model(<<>>, save_model(matchboxes))) = TableOf(matchboxes)

----------------------------------------------------------------------------
(* C6: after every training call that returns, the persisted model equals  *)
(* the in-memory table: the same states, moves and beads.                  *)

C6_PersistedEqualsTable ==
    Trained => file.exists /\ FileTable(file) = TableOf(matchboxes)

----------------------------------------------------------------------------
(* C7: __init__ loads an existing model file, and the table then equals    *)
(* the persisted one, also when a states-and-moves table was given; else   *)
(* it builds a table from a given states-and-moves table; else it fails    *)
(* with the missing-model error, builds no table and writes no file.       *)

C7_ConstructionPolicy ==
    [][ last'.op = "init" =>
          IF file.exists
          THEN /\ last'.err = "none"
               /\ pc' = "ready"
               /\ file' = file
               /\ TableOf(matchboxes') = FileTable(file)
          ELSE IF last'.given
          THEN /\ last'.err = "none"
               /\ pc' = "ready"
               /\ file'.exists
               /\ \A i \in DOMAIN last'.states_and_moves :
                     LET state == last'.states_and_moves[i][1]
                         moves == last'.states_and_moves[i][2]
                     IN  /\ DictHas(matchboxes', state)
                         /\ BeadsOf(DictGet(matchboxes', state))
                               = [m \in {moves[j] : j \in DOMAIN moves} |->
                                     initial_beads]
          ELSE /\ last'.err = "FileNotFoundError"
               /\ pc' = "new"
               /\ matchboxes' = <<>>
               /\ ~file'.exists
      ]_vars

\* An agent was built from an existing file although a states-and-moves
\* table of other states was given.
C7_Witness ==
    /\ last.op = "init"
    /\ last.given
    /\ last.states_and_moves # <<>>
    /\ pc = "ready"
    /\ DictKeys(matchboxes) # {last.states_and_moves[i][1] :
                                  i \in DOMAIN last.states_and_moves}
    /\ \E state \in DictKeys(matchboxes) :
          Weight(matchboxes, state, M2) = max_beads

----------------------------------------------------------------------------
(* C8: an agent bootstrapped from a states-and-moves table (no model file  *)
(* exists) ends __init__ with exactly one matchbox per state of that       *)
(* table, each with exactly that state's legal moves at 3 beads, and the   *)
(* model file written equals that table.                                   *)

C8_BootstrapTable ==
    [][ (last'.op = "init" /\ ~file.exists /\ last'.given) =>
          LET t == last'.states_and_moves
          IN  /\ DictKeys(matchboxes') = {t[i][1] : i \in DOMAIN t}
              /\ Len(matchboxes') = Len(t)
              /\ \A i \in DOMAIN t :
                    BeadsOf(DictGet(matchboxes', t[i][1]))
                       = [m \in {t[i][2][j] : j \in DOMAIN t[i][2]} |->
                             initial_beads]
              /\ file'.exists
              /\ FileTable(file') = TableOf(matchboxes')
      ]_vars

----------------------------------------------------------------------------
(* C9: in every state of an agent every legal move of every known state    *)
(* has at least 1 bead, so get_move on a known state with legal moves can  *)
(* return each of them and nothing else; for a state of one legal move it  *)
(* returns that move.                                                      *)

C9_EveryMoveDrawable ==
    pc = "ready" =>
        /\ \A i \in DOMAIN matchboxes :
              LET state == matchboxes[i][1]
                  legal == DictKeys(matchboxes[i][2].moves_and_beads)
              IN  /\ \A m \in legal : Weight(matchboxes, state, m) >= 1
                  /\ legal # {} =>
                        get_move(matchboxes, state)
                           = {[err |-> "none", ret |-> m] : m \in legal}
        /\ (last.op = "get_move" /\ DictHas(matchboxes, last.state)
              /\ DictGet(matchboxes, last.state).moves_and_beads # <<>>) =>
              /\ last.err = "none"
              /\ last.ret \in DictKeys(DictGet(matchboxes, last.state).moves_and_beads)

\* After training, get_move has returned a move that is at the floor, from
\* a state whose other move is at the ceiling.
C9_Witness ==
    /\ pc = "ready"
    /\ nTrain > 0
    /\ last.op = "get_move"
    /\ last.err = "none"
    /\ Weight(matchboxes, last.state, last.ret) = min_beads
    /\ \E m \in DictKeys(DictGet(matchboxes, last.state).moves_and_beads) :
          Weight(matchboxes, last.state, m) = max_beads

----------------------------------------------------------------------------
(* C10: get_move for a state that has no matchbox in the table raises the  *)
(* error, returns no move, and leaves the table and the file as they were. *)

C10_UnknownStateFails ==
    [][ (last'.op = "get_move" /\ ~DictHas(matchboxes, last'.state)) =>
          /\ last'.err = "Exception"
          /\ last'.ret = <<>>
          /\ matchboxes' = matchboxes
          /\ file' = file
      ]_vars

\* After training, get_move has failed on a state the table does not know,
\* the table knowing the string of the same numeral.
C10_Witness ==
    /\ pc = "ready"
    /\ nTrain > 0
    /\ last.op = "get_move"
    /\ last.err = "Exception"
    /\ ~DictHas(matchboxes, last.state)
    /\ DictHas(matchboxes, Str(last.state))

----------------------------------------------------------------------------
(* C11: get_beads returns the beads of a move of the matchbox and -1 for   *)
(* any other move, raises nothing and leaves the matchbox as it was; no    *)
(* stored bead count equals -1, every one being at least 1.                *)

C11_GetBeadsSentinel ==
    [][ boxLast'.op = "get_beads" =>
          /\ boxLast'.err = "none"
          /\ box' = box
          /\ \A m \in DictKeys(box.moves_and_beads) : BeadsOf(box)[m] >= 1
          /\ IF boxLast'.move \in DictKeys(box.moves_and_beads)
             THEN boxLast'.beads = BeadsOf(box)[boxLast'.move]
             ELSE boxLast'.beads = -1
      ]_vars

\* get_beads has returned -1 for a move the matchbox, which has moves,
\* does not hold.
C11_Witness ==
    /\ boxLast.op = "get_beads"
    /\ boxLast.beads = -1
    /\ box.moves_and_beads # <<>>
    /\ boxLast.move \notin DictKeys(box.moves_and_beads)

----------------------------------------------------------------------------
(* C12: every bead count of every matchbox of the table lies in [1, 15]    *)
(* from construction on, before any reward or punish, whether create_model *)
(* made the matchbox from an initial count or import_model from a file.    *)

C12_TableWithinBounds ==
    \A i \in DOMAIN matchboxes :
        \A j \in DOMAIN matchboxes[i][2].moves_and_beads :
            /\ min_beads <= matchboxes[i][2].moves_and_beads[j][2]
            /\ matchboxes[i][2].moves_and_beads[j][2] <= max_beads

----------------------------------------------------------------------------
(* C13: no call on a matchbox (get_beads, reward, punish, draw_bead) adds  *)
(* or removes a move; reward and punish of a move the matchbox does not    *)
(* hold raise KeyError and leave every bead count as it was.               *)

C13_KeySetFixed ==
    [][ /\ DictKeys(box'.moves_and_beads) = DictKeys(box.moves_and_beads)
        /\ (/\ boxLast'.op \in {"reward", "punish"}
            /\ boxLast'.move \notin DictKeys(box.moves_and_beads))
           => (boxLast'.err = "KeyError" /\ box' = box)
      ]_vars

\* punish has raised KeyError on a matchbox of two moves.
C13_Witness ==
    /\ boxLast.op = "punish"
    /\ boxLast.err = "KeyError"
    /\ boxLast.move \notin DictKeys(box.moves_and_beads)
    /\ Len(box.moves_and_beads) = 2

----------------------------------------------------------------------------
(* C14: punish of a move that has 1 bead leaves it at 1, and reward of a   *)
(* move that has 15 beads leaves it at 15, however often it is applied;    *)
(* the beads of the other moves stay as they were.                         *)

C14_IdempotentAtBounds ==
    [][ (/\ boxLast'.move \in DictKeys(box.moves_and_beads)
         /\ \/ /\ boxLast'.op = "punish"
               /\ BeadsOf(box)[boxLast'.move] = min_beads
            \/ /\ boxLast'.op = "reward"
               /\ BeadsOf(box)[boxLast'.move] = max_beads)
        => (boxLast'.err = "none" /\ BeadsOf(box') = BeadsOf(box))
      ]_vars

\* punish has acted on a move that is at the floor, the other move of the
\* matchbox being at the ceiling.
C14_Witness ==
    /\ boxLast.op = "punish"
    /\ boxLast.err = "none"
    /\ get_beads(box, boxLast.move) = min_beads
    /\ \E m \in DictKeys(box.moves_and_beads) :
          m # boxLast.move /\ get_beads(box, m) = max_beads

----------------------------------------------------------------------------
(* C15: for one table, history and player_position, every winner_position  *)
(* other than player_position (another player, or no winner) gives the     *)
(* same table, the same model file and the same outcome of the call.       *)

C15_DrawAsLoss ==
    [][ (/\ last'.op = "game_report"
         /\ last'.winner_position # last'.player_position)
        => \A w \in Winners \ {last'.player_position} :
              LET r == _train_model(matchboxes, file, last'.game_history,
                                    last'.player_position, w)
              IN  /\ r.err = last'.err
                  /\ r.matchboxes = matchboxes'
                  /\ r.file = file'
      ]_vars

\* A call for a game without winner has returned and has taken a bead
\* from a pair of the acting player.
C15_Witness ==
    /\ Trained
    /\ last.winner_position = 0
    /\ \E x \in ActingPairs(last.game_history, last.player_position) :
          Weight(matchboxes, x[1], x[2]) = initial_beads - 1

----------------------------------------------------------------------------
(* C16, as claimed: a training call that fails on a pair whose state is    *)
(* not in the table, or whose move is not in that state's matchbox, has    *)
(* changed no bead count.                                                  *)

C16_TrainAllOrNothing ==
    [][ (last'.op = "game_report" /\ last'.err # "none")
        => TableOf(matchboxes') = TableOf(matchboxes)
      ]_vars

(* C16, amended: such a call raises KeyError at the first pair of the      *)
(* acting player's subsequence that the table does not hold and writes no  *)
(* file; the pairs of the subsequence before that one have been rewarded   *)
(* or punished, once per occurrence and within the bounds, and stay so in  *)
(* memory; no other bead count is changed.                                 *)

\* The pair at index i of history h is not in table mb.
NotInTable(mb, h, i) ==
    \/ ~DictHas(mb, h[i + 1][1])
    \/ ~DictHas(DictGet(mb, h[i + 1][1]).moves_and_beads, h[i + 1][2])

C16_TrainFailureKeepsPrefix ==
    [][ (last'.op = "game_report" /\ last'.err # "none") =>
          LET h == last'.game_history
              idx == ActingIndices(h, last'.player_position)
              won == last'.player_position = last'.winner_position
              bad == {i \in idx : NotInTable(matchboxes, h, i)}
              first == CHOOSE i \in bad : \A j \in bad : i <= j
              Times(state, move) ==
                  Cardinality({i \in idx :
                                  i < first /\ h[i + 1] = <<state, move>>})
          IN  /\ last'.err = "KeyError"
              /\ bad # {}
              /\ file' = file
              /\ DictKeys(matchboxes') = DictKeys(matchboxes)
              /\ \A state \in DictKeys(matchboxes) :
                    /\ DOMAIN BeadsOf(DictGet(matchboxes', state))
                          = DOMAIN BeadsOf(DictGet(matchboxes, state))
                    /\ \A move \in DictKeys(DictGet(matchboxes, state).moves_and_beads) :
                          Weight(matchboxes', state, move) =
                             IF Times(state, move) = 0
                             THEN Weight(matchboxes, state, move)
                             ELSE IF won
                             THEN Min(Weight(matchboxes, state, move)
                                         + Times(state, move), max_beads)
                             ELSE Max(Weight(matchboxes, state, move)
                                         - Times(state, move), min_beads)
      ]_vars

\* A call has failed and the table, of the states of the file, is no
\* longer the persisted one.
C16_Witness ==
    /\ last.op = "game_report"
    /\ last.err = "KeyError"
    /\ file.exists
    /\ DictKeys(matchboxes) = FileKeys(file)
    /\ TableOf(matchboxes) # FileTable(file)

----------------------------------------------------------------------------
(* C17: a get_move call, for a known or an unknown state, whether it       *)
(* returns a move or raises, changes no bead count, no key of the table    *)
(* and nothing of the model file.                                          *)

C17_GetMoveReadOnly ==
    [][ last'.op = "get_move"
        => /\ matchboxes' = matchboxes
           /\ file' = file
      ]_vars

\* get_move has returned a move of a matchbox that training had changed:
\* the move drawn has a bead count other than the initial one.
C17_Witness ==
    /\ last.op = "get_move"
    /\ last.err = "none"
    /\ nTrain > 0
    /\ DictHas(matchboxes, last.state)
    /\ Weight(matchboxes, last.state, last.ret) # initial_beads
    /\ file.exists

====
